---------------------------- MODULE Spec2Model ----------------------------
(***************************************************************************)
(* Model of converter.go (ssossan/slack-analytics): the export-directory   *)
(* pipeline  loadUsers -> filepath.Walk(readMessagesFromJSONFile,          *)
(* updateStats) -> exportCSV  together with what main prints.              *)
(*                                                                         *)
(* Strings that the code takes apart (timestamps, display names, numbers   *)
(* written to the CSV) are sequences of one-character strings; strings     *)
(* that are only compared (identifiers, directory names) are TLA+ strings. *)
(* Go maps are functions whose DOMAIN is the set of keys present.          *)
(***************************************************************************)
EXTENDS Integers, Sequences, FiniteSets, Bags, TLC

(***************************************************************************)
(* Bounds of the model.                                                    *)
(***************************************************************************)
\* messages in one message-log file
MaxMsgs == 2
\* messages in the list that builds the starting table of SpecPerm
MaxSeedLen == 1
\* messages in the list that SpecPerm permutes
MaxPermLen == 2

(***************************************************************************)
(* Maps.                                                                   *)
(***************************************************************************)
EmptyMap == [k \in {} |-> 0]

Put(m, k, v) == [x \in (DOMAIN m) \cup {k} |-> IF x = k THEN v ELSE m[x]]

RECURSIVE SetSum(_, _)
SetSum(S, f) ==
    IF S = {} THEN 0
    ELSE LET x == CHOOSE y \in S : TRUE IN f[x] + SetSum(S \ {x}, f)

\* Body of the value of v: a local that is assigned once and then read
Bind(v, Body(_)) == CHOOSE out \in {Body(x) : x \in {v}} : TRUE

(***************************************************************************)
(* Decimal arithmetic.  A timestamp can name a number of seconds far       *)
(* beyond the integers the model checker works with, so magnitudes are     *)
(* sequences of digits 0..9, most significant first, without leading       *)
(* zeros; zero is <<0>>.  A signed number is [neg, mag].  The operations   *)
(* are functions, so that an argument is worked out once, before the       *)
(* function's body refers to it.                                           *)
(***************************************************************************)
DigitChars == <<"0", "1", "2", "3", "4", "5", "6", "7", "8", "9">>

IsDigit(c) == \E i \in DOMAIN DigitChars : DigitChars[i] = c

DigitVal(c) == (CHOOSE i \in DOMAIN DigitChars : DigitChars[i] = c) - 1

DigitSeqs == Seq(0..9)

SignedNums == [neg : BOOLEAN, mag : DigitSeqs]

\* ds without its leading zeros
Norm[ds \in DigitSeqs] ==
    IF \A i \in DOMAIN ds : ds[i] = 0 THEN <<0>>
    ELSE SubSeq(ds,
                CHOOSE i \in DOMAIN ds :
                    ds[i] # 0 /\ \A j \in 1..(i - 1) : ds[j] = 0,
                Len(ds))

\* ds without its trailing zeros
StripTrailingZeros[ds \in DigitSeqs] ==
    IF \A i \in DOMAIN ds : ds[i] = 0 THEN << >>
    ELSE SubSeq(ds, 1,
                CHOOSE i \in DOMAIN ds :
                    ds[i] # 0 /\ \A j \in (i + 1)..Len(ds) : ds[j] = 0)

Zeros(n) == [i \in 1..n |-> 0]

\* -1, 0 or 1 as a < b, a = b or a > b
Cmp[a \in DigitSeqs, b \in DigitSeqs] ==
    IF Len(a) < Len(b) THEN -1
    ELSE IF Len(a) > Len(b) THEN 1
    ELSE IF a = b THEN 0
    ELSE IF \E i \in DOMAIN a :
                a[i] < b[i] /\ \A j \in 1..(i - 1) : a[j] = b[j]
    THEN -1
    ELSE 1

NatDigits[n \in Nat] ==
    IF n < 10 THEN <<n>> ELSE Append(NatDigits[n \div 10], n % 10)

ToInt[a \in DigitSeqs] ==
    IF a = << >> THEN 0
    ELSE 10 * ToInt[SubSeq(a, 1, Len(a) - 1)] + a[Len(a)]

\* the digits of hi before those of lo; the carry is the one out of hi
Products == [digits : DigitSeqs, carry : Nat]

Join[hi \in Products, lo \in Products] ==
    [digits |-> hi.digits \o lo.digits, carry |-> hi.carry]

\* a * k + c as Len(a) digits and the carry out of them; a is multiplied
\* half by half, the carry of the lower half going into the upper one
MulPart[a \in DigitSeqs, k \in Nat, c \in Nat] ==
    IF Len(a) = 0 THEN [digits |-> << >>, carry |-> c]
    ELSE IF Len(a) = 1
    THEN [digits |-> <<(a[1] * k + c) % 10>>, carry |-> (a[1] * k + c) \div 10]
    ELSE LET half == Len(a) \div 2
             lo   == MulPart[SubSeq(a, half + 1, Len(a)), k, c]
         IN  Join[MulPart[SubSeq(a, 1, half), k, lo.carry], lo]

\* a * k + c for a small factor k and a small addend c
MulAdd[a \in DigitSeqs, k \in Nat, c \in Nat] ==
    Norm[NatDigits[MulPart[a, k, c].carry] \o MulPart[a, k, c].digits]

RECURSIVE DivLoop(_, _, _, _, _)
DivLoop(a, d, i, r, q) ==
    IF i > Len(a) THEN [q |-> Norm[q], r |-> r]
    ELSE DivLoop(a, d, i + 1, (r * 10 + a[i]) % d,
                 Append(q, (r * 10 + a[i]) \div d))

\* quotient (a magnitude) and remainder (an integer) of a by a small d
DivMod[a \in DigitSeqs, d \in Nat] == DivLoop(a, d, 1, 0, << >>)

\* the digit of a that is k places left of the last one, 0 beyond the first
DigitAt(a, k) == IF k < Len(a) THEN a[Len(a) - k] ELSE 0

RECURSIVE AddFrom(_, _, _, _)
AddFrom(a, b, k, carry) ==
    IF k >= Len(a) /\ k >= Len(b)
    THEN IF carry = 0 THEN << >> ELSE <<carry>>
    ELSE Append(AddFrom(a, b, k + 1,
                        (DigitAt(a, k) + DigitAt(b, k) + carry) \div 10),
                (DigitAt(a, k) + DigitAt(b, k) + carry) % 10)

Add[a \in DigitSeqs, b \in DigitSeqs] == Norm[AddFrom(a, b, 0, 0)]

RECURSIVE SubFrom(_, _, _, _)
SubFrom(a, b, k, borrow) ==
    IF k >= Len(a) THEN << >>
    ELSE Append(SubFrom(a, b, k + 1,
                        IF DigitAt(a, k) - DigitAt(b, k) - borrow < 0
                        THEN 1 ELSE 0),
                (DigitAt(a, k) - DigitAt(b, k) - borrow + 10) % 10)

\* a - b for a >= b
Sub[a \in DigitSeqs, b \in DigitSeqs] == Norm[SubFrom(a, b, 0, 0)]

Signed[neg \in BOOLEAN, mag \in DigitSeqs] ==
    [neg |-> neg /\ mag # <<0>>, mag |-> mag]

SignedInt[n \in Int] ==
    IF n < 0 THEN Signed[TRUE, NatDigits[0 - n]] ELSE Signed[FALSE, NatDigits[n]]

SignedAdd[x \in SignedNums, y \in SignedNums] ==
    IF x.neg = y.neg THEN Signed[x.neg, Add[x.mag, y.mag]]
    ELSE IF Cmp[x.mag, y.mag] >= 0 THEN Signed[x.neg, Sub[x.mag, y.mag]]
    ELSE Signed[y.neg, Sub[y.mag, x.mag]]

IsOdd(a) == a[Len(a)] % 2 = 1

Pow2[n \in Nat] == IF n = 0 THEN 1 ELSE 2 * Pow2[n - 1]

Pow5[n \in Nat] == IF n = 0 THEN 1 ELSE 5 * Pow5[n - 1]

\* g * 2^n, twenty factors at a time
Times2[g \in DigitSeqs, n \in Nat] ==
    IF n <= 20 THEN MulAdd[g, Pow2[n], 0]
    ELSE Times2[MulAdd[g, Pow2[20], 0], n - 20]

\* g * 5^n, eight factors at a time
Times5[g \in DigitSeqs, n \in Nat] ==
    IF n <= 8 THEN MulAdd[g, Pow5[n], 0]
    ELSE Times5[MulAdd[g, Pow5[8], 0], n - 8]

\* g \div 2^n
ShiftRight[g \in DigitSeqs, n \in Nat] ==
    IF n <= 20 THEN DivMod[g, Pow2[n]].q
    ELSE ShiftRight[DivMod[g, Pow2[20]].q, n - 20]

BitLenInt[n \in Nat] == IF n = 0 THEN 0 ELSE 1 + BitLenInt[n \div 2]

\* the number of binary digits of a
BitLen[a \in DigitSeqs] ==
    IF Len(a) <= 9 THEN BitLenInt[ToInt[a]]
    ELSE 10 + BitLen[DivMod[a, 1024].q]

(***************************************************************************)
(* float64.  The model keeps of a float64 what int64(floatTs) reads:       *)
(* whether it is a number, an infinity or a NaN, its sign, and the integer *)
(* part of its magnitude.  ParseFloat yields the float64 nearest to the    *)
(* decimal value, ties to the even mantissa; the integer part of that      *)
(* float64 can be one more than the integer part of the decimal text       *)
(* ("86399.99999999999999999" is 86400), and above 2^53 it is a multiple   *)
(* of a power of two near the text's value.                                *)
(***************************************************************************)
\* 2^53: float64 holds every integer below it
Two53 ==
    <<9, 0, 0, 7, 1, 9, 9, 2, 5, 4, 7, 4, 0, 9, 9, 2>>

\* 2^63
Two63 ==
    <<9, 2, 2, 3, 3, 7, 2, 0, 3, 6, 8, 5, 4, 7, 7, 5, 8, 0, 8>>

\* 2^64
Two64 ==
    <<1, 8, 4, 4, 6, 7, 4, 4, 0, 7, 3, 7, 0, 9, 5, 5, 1, 6, 1, 6>>

\* the least decimal value that rounds to +Inf: 2^1024 - 2^970, halfway
\* between the largest float64, 2^1024 - 2^971, and 2^1024
FloatOverflow ==
    <<1, 7, 9, 7, 6, 9, 3, 1, 3, 4, 8, 6, 2, 3, 1, 5, 8, 0, 7, 9, 3, 7, 2,
      8, 9, 7, 1, 4, 0, 5, 3, 0, 3, 4, 1, 5, 0, 7, 9, 9, 3, 4, 1, 3, 2, 7,
      1, 0, 0, 3, 7, 8, 2, 6, 9, 3, 6, 1, 7, 3, 7, 7, 8, 9, 8, 0, 4, 4, 4,
      9, 6, 8, 2, 9, 2, 7, 6, 4, 7, 5, 0, 9, 4, 6, 6, 4, 9, 0, 1, 7, 9, 7,
      7, 5, 8, 7, 2, 0, 7, 0, 9, 6, 3, 3, 0, 2, 8, 6, 4, 1, 6, 6, 9, 2, 8,
      8, 7, 9, 1, 0, 9, 4, 6, 5, 5, 5, 5, 4, 7, 8, 5, 1, 9, 4, 0, 4, 0, 2,
      6, 3, 0, 6, 5, 7, 4, 8, 8, 6, 7, 1, 5, 0, 5, 8, 2, 0, 6, 8, 1, 9, 0,
      8, 9, 0, 2, 0, 0, 0, 7, 0, 8, 3, 8, 3, 6, 7, 6, 2, 7, 3, 8, 5, 4, 8,
      4, 5, 8, 1, 7, 7, 1, 1, 5, 3, 1, 7, 6, 4, 4, 7, 5, 7, 3, 0, 2, 7, 0,
      0, 6, 9, 8, 5, 5, 5, 7, 1, 3, 6, 6, 9, 5, 9, 6, 2, 2, 8, 4, 2, 9, 1,
      4, 8, 1, 9, 8, 6, 0, 8, 3, 4, 9, 3, 6, 4, 7, 5, 2, 9, 2, 7, 1, 9, 0,
      7, 4, 1, 6, 8, 4, 4, 4, 3, 6, 5, 5, 1, 0, 7, 0, 4, 3, 4, 2, 7, 1, 1,
      5, 5, 9, 6, 9, 9, 5, 0, 8, 0, 9, 3, 0, 4, 2, 8, 8, 0, 1, 7, 7, 9, 0,
      4, 1, 7, 4, 4, 9, 7, 7, 9, 2>>

\* digits of the largest float64 before the point
MaxIntDigits == 309

\* Does the decimal  I.F  round to a float64 that is at least I + 1 ?
\* I < 2^53 and F (the digits after the point, no trailing zeros) are
\* given.  The float64s just below I + 1 are 2^(BitLen(I) - 53) apart, so
\* the answer is yes when  gap = 1 - 0.F  is below half of that, 2^-n, and
\* at exactly half when the tie goes up: I + 1 has the even mantissa
\* unless the float64s of the interval are the integers themselves.
\* With L digits after the point the question is how  g * 2^n , g the
\* integer gap * 10^L, stands to 10^L.  The digit counts settle most
\* cases, 2^n lying between 10^(3n/10) and 10^(302n/1000).
RoundsUp[I \in DigitSeqs, F \in DigitSeqs] ==
    LET n  == 54 - BitLen[I]
        L  == Len(F)
        g  == Norm[[i \in 1..L |-> IF i = L THEN 10 - F[i] ELSE 9 - F[i]]]
        c  == Cmp[Times2[g, n], <<1>> \o Zeros(L)]
    IN  /\ L > 0
        /\ Len(g) - 1 + (3 * n) \div 10 <= L
        /\ \/ Len(g) + (302 * n) \div 1000 + 1 <= L
           \/ c < 0
           \/ c = 0 /\ (n > 1 \/ IsOdd(I))

\* the integer part of the float64 nearest to I.F
RoundWhole[I \in DigitSeqs, F \in DigitSeqs] ==
    IF Cmp[I, Two53] < 0
    THEN IF RoundsUp[I, F] THEN Add[I, <<1>>] ELSE I
    ELSE IF Cmp[I, Two64] < 0
    THEN LET p  == Pow2[BitLen[I] - 53]
             dm == DivMod[I, p]
             up == \/ dm.r > p \div 2
                   \/ dm.r = p \div 2 /\ (F # << >> \/ IsOdd(dm.q))
         IN  MulAdd[dm.q, p, IF up THEN p ELSE 0]
    ELSE I   \* at least 2^64: beyond int64 whatever the rounding does

\* the float64 of  ds * 10^e  (ds a magnitude): out of range, or the
\* integer part of its magnitude
DecimalToFloat[ds \in DigitSeqs, e \in Int] ==
    LET intLen == Len(ds) + e
        I == IF e >= 0 THEN ds \o Zeros(e) ELSE Norm[SubSeq(ds, 1, intLen)]
        F == IF e >= 0 THEN << >>
             ELSE StripTrailingZeros[SubSeq(ds, intLen + 1, Len(ds))]
    IN  IF ds = <<0>> \/ intLen < 0 THEN [range |-> FALSE, whole |-> <<0>>]
        ELSE IF intLen > MaxIntDigits THEN [range |-> TRUE, whole |-> <<0>>]
        ELSE IF Len(I) = MaxIntDigits /\ Cmp[I, FloatOverflow] >= 0
        THEN [range |-> TRUE, whole |-> <<0>>]
        ELSE [range |-> FALSE, whole |-> RoundWhole[I, F]]

\* every float64 is below 2^1024
MaxBits == 1024

\* the digits after the point of  r / 2^k  for r < 2^k:  r * 5^k  written
\* with k digits
BinaryFraction[r \in DigitSeqs, k \in Nat] ==
    StripTrailingZeros[Zeros(k - Len(Times5[r, k])) \o Times5[r, k]]

\* the float64 of  (m + t) * 2^e , m < 2^64 the mantissa read from a
\* hexadecimal float and t, with 0 < t < 1, there when trunc says that
\* digits other than 0 were left out of m (then m >= 2^60).  No halfway
\* point between two float64s lies between m * 2^e and (m + 1) * 2^e, so
\* any digit after those of m * 2^e stands for t.
HexToFloat[m \in DigitSeqs, trunc \in BOOLEAN, e \in Int] ==
    LET sticky == IF trunc THEN <<1>> ELSE << >>
        I == IF e >= 0 THEN Times2[m, e] ELSE ShiftRight[m, 0 - e]
        r == Sub[m, Times2[I, 0 - e]]
    IN  IF m = <<0>> \/ e < 0 - 64 THEN [range |-> FALSE, whole |-> <<0>>]
        ELSE IF BitLen[m] + e > MaxBits THEN [range |-> TRUE, whole |-> <<0>>]
        ELSE IF e >= 0
        THEN IF Len(I) = MaxIntDigits /\ Cmp[I, FloatOverflow] >= 0
             THEN [range |-> TRUE, whole |-> <<0>>]
             ELSE [range |-> FALSE, whole |-> RoundWhole[I, sticky]]
        ELSE [range |-> FALSE,
              whole |-> RoundWhole[I, BinaryFraction[r, 0 - e] \o sticky]]

(***************************************************************************)
(* strconv.ParseFloat(message.Timestamp, 64).  Accepted are "nan", a       *)
(* signed or unsigned "inf" or "infinity" (letters of either case), and    *)
(* decimal numbers  [+-] digits [. digits] [e [+-] digits]  with at least  *)
(* one digit before the exponent, and hexadecimal numbers                  *)
(* [+-] 0x hexdigits [. hexdigits] p [+-] digits  with at least one digit  *)
(* before the exponent and at least one character after "0x".  An          *)
(* underscore may stand between two digits and right after "0x".  A value  *)
(* too large for float64 is a range error; any other string is a syntax    *)
(* error.  Either error makes err non-nil.                                 *)
(***************************************************************************)
UpperChars ==
    <<"A", "B", "C", "D", "E", "F", "G", "H", "I", "J", "K", "L", "M",
      "N", "O", "P", "Q", "R", "S", "T", "U", "V", "W", "X", "Y", "Z">>

LowerChars ==
    <<"a", "b", "c", "d", "e", "f", "g", "h", "i", "j", "k", "l", "m",
      "n", "o", "p", "q", "r", "s", "t", "u", "v", "w", "x", "y", "z">>

Lower(c) ==
    IF \E i \in DOMAIN UpperChars : UpperChars[i] = c
    THEN LowerChars[CHOOSE i \in DOMAIN UpperChars : UpperChars[i] = c]
    ELSE c

EqualFold(s, word) ==
    Len(s) = Len(word) /\ \A i \in DOMAIN s : Lower(s[i]) = word[i]

HasSign(s) == Len(s) > 0 /\ s[1] \in {"+", "-"}

Unsigned(s) == IF HasSign(s) THEN Tail(s) ELSE s

IsNaN(s) == EqualFold(s, <<"n", "a", "n">>)

IsInf(s) ==
    \/ EqualFold(Unsigned(s), <<"i", "n", "f">>)
    \/ EqualFold(Unsigned(s), <<"i", "n", "f", "i", "n", "i", "t", "y">>)

IsHexFloat(s) ==
    Len(Unsigned(s)) > 2 /\ Unsigned(s)[1] = "0" /\ Lower(Unsigned(s)[2]) = "x"

HexChars == <<"a", "b", "c", "d", "e", "f">>

\* a digit of the base: 0-9, and a-f of either case in a hexadecimal float
IsBaseDigit(c, hex) ==
    IsDigit(c) \/ (hex /\ \E i \in DOMAIN HexChars : HexChars[i] = Lower(c))

BaseDigitVal(c) ==
    IF IsDigit(c) THEN DigitVal(c)
    ELSE 9 + CHOOSE i \in DOMAIN HexChars : HexChars[i] = Lower(c)

\* the letter before the exponent
ExpChar(hex) == IF hex THEN "p" ELSE "e"

\* where the exponent letter stands in body, Len(body) + 1 if nowhere
ExpPos[body \in Seq(STRING), hex \in BOOLEAN] ==
    IF \A i \in DOMAIN body : Lower(body[i]) # ExpChar(hex) THEN Len(body) + 1
    ELSE CHOOSE i \in DOMAIN body :
             /\ Lower(body[i]) = ExpChar(hex)
             /\ \A j \in 1..(i - 1) : Lower(body[j]) # ExpChar(hex)

Mantissa[body \in Seq(STRING), hex \in BOOLEAN] ==
    SubSeq(body, 1, ExpPos[body, hex] - 1)

Exponent[body \in Seq(STRING), hex \in BOOLEAN] ==
    SubSeq(body, ExpPos[body, hex] + 1, Len(body))

MantissaSyntax[mant \in Seq(STRING), hex \in BOOLEAN] ==
    /\ \A i \in DOMAIN mant :
           IsBaseDigit(mant[i], hex) \/ mant[i] \in {".", "_"}
    /\ \A i, j \in DOMAIN mant : mant[i] = "." /\ mant[j] = "." => i = j
    /\ \E i \in DOMAIN mant : IsBaseDigit(mant[i], hex)

\* what follows the exponent letter: an optional sign, then digits
ExponentSyntax[expo \in Seq(STRING)] ==
    /\ Len(expo) > 0
    /\ IsDigit(expo[1])
    /\ \A i \in DOMAIN expo : IsDigit(expo[i]) \/ expo[i] = "_"

\* body is the text after the sign and, in a hexadecimal float, after the
\* "0x"; a hexadecimal float must have an exponent
NumberSyntax[body \in Seq(STRING), hex \in BOOLEAN] ==
    /\ MantissaSyntax[Mantissa[body, hex], hex]
    /\ ExpPos[body, hex] <= Len(body)
           => ExponentSyntax[Unsigned(Exponent[body, hex])]
    /\ hex => ExpPos[body, hex] <= Len(body)
    /\ \A i \in DOMAIN body :
           body[i] = "_" =>
               /\ (i > 1 /\ IsBaseDigit(body[i - 1], hex)) \/ (hex /\ i = 1)
               /\ i < Len(body) /\ IsBaseDigit(body[i + 1], hex)

IsHexChar(c) == IsBaseDigit(c, TRUE)

\* the digits of s, in order, as numbers
DigitsOf[s \in Seq(STRING)] ==
    [i \in DOMAIN SelectSeq(s, IsHexChar) |->
        BaseDigitVal(SelectSeq(s, IsHexChar)[i])]

\* the digits of mant that follow its point
FractionOf[mant \in Seq(STRING)] ==
    IF \A i \in DOMAIN mant : mant[i] # "." THEN << >>
    ELSE SubSeq(mant, (CHOOSE i \in DOMAIN mant : mant[i] = ".") + 1,
                Len(mant))

\* the exponent's digits are added to e only while e < 10000: the value
\* is that of the first five digits from the first one that is not 0
ExpValue[ds \in DigitSeqs] ==
    IF Len(Norm[ds]) <= 5 THEN ToInt[Norm[ds]]
    ELSE ToInt[SubSeq(Norm[ds], 1, 5)]

\* dp, the power of the base that goes with the exponent part expo
ExpShift[expo \in Seq(STRING)] ==
    IF HasSign(expo) /\ expo[1] = "-" THEN 0 - ExpValue[DigitsOf[expo]]
    ELSE ExpValue[DigitsOf[expo]]

NotAFloat == [err |-> TRUE, kind |-> "none", neg |-> FALSE, whole |-> <<0>>]

Rounded == [range : BOOLEAN, whole : DigitSeqs]

FloatOf[neg \in BOOLEAN, f \in Rounded] ==
    IF f.range THEN NotAFloat
    ELSE [err |-> FALSE, kind |-> "num", neg |-> neg, whole |-> f.whole]

ParseDecimal[neg \in BOOLEAN, body \in Seq(STRING)] ==
    IF ~NumberSyntax[body, FALSE] THEN NotAFloat
    ELSE FloatOf[neg,
                 DecimalToFloat[
                     Norm[DigitsOf[Mantissa[body, FALSE]]],
                     ExpShift[Exponent[body, FALSE]]
                         - Len(DigitsOf[FractionOf[Mantissa[body, FALSE]]])]]

HexSeqs == Seq(0..15)

\* hs from its first digit that is not 0
Significant[hs \in HexSeqs] ==
    IF \A i \in DOMAIN hs : hs[i] = 0 THEN << >>
    ELSE SubSeq(hs,
                CHOOSE i \in DOMAIN hs :
                    hs[i] # 0 /\ \A j \in 1..(i - 1) : hs[j] = 0,
                Len(hs))

\* hexadecimal digits kept in the mantissa, a uint64
MaxMantDigits == 16

\* the number the hexadecimal digits hs write
HexValue[hs \in HexSeqs] ==
    IF hs = << >> THEN <<0>>
    ELSE MulAdd[HexValue[SubSeq(hs, 1, Len(hs) - 1)], 16, hs[Len(hs)]]

\* sig are the mantissa's digits from the first that is not 0, nfrac of
\* the mantissa's digits follow the point, e is the exponent.  The first
\* 16 digits make the mantissa; the others only say whether it was cut.
HexMantissaToFloat[sig \in HexSeqs, nfrac \in Nat, e \in Int] ==
    IF Len(sig) <= MaxMantDigits
    THEN HexToFloat[HexValue[sig], FALSE, e - 4 * nfrac]
    ELSE HexToFloat[HexValue[SubSeq(sig, 1, MaxMantDigits)],
                    \E i \in (MaxMantDigits + 1)..Len(sig) : sig[i] # 0,
                    e + 4 * (Len(sig) - MaxMantDigits - nfrac)]

ParseHex[neg \in BOOLEAN, body \in Seq(STRING)] ==
    IF ~NumberSyntax[body, TRUE] THEN NotAFloat
    ELSE FloatOf[neg,
                 HexMantissaToFloat[
                     Significant[DigitsOf[Mantissa[body, TRUE]]],
                     Len(DigitsOf[FractionOf[Mantissa[body, TRUE]]]),
                     ExpShift[Exponent[body, TRUE]]]]

ParseFloat(ts) ==
    CASE IsNaN(ts) ->
           [err |-> FALSE, kind |-> "nan", neg |-> FALSE, whole |-> <<0>>]
      [] IsInf(ts) ->
           [err |-> FALSE, kind |-> "inf",
            neg |-> HasSign(ts) /\ ts[1] = "-", whole |-> <<0>>]
      [] ~IsNaN(ts) /\ ~IsInf(ts) /\ IsHexFloat(ts) ->
           ParseHex[HasSign(ts) /\ ts[1] = "-",
                    SubSeq(Unsigned(ts), 3, Len(Unsigned(ts)))]
      [] ~IsNaN(ts) /\ ~IsInf(ts) /\ ~IsHexFloat(ts) ->
           ParseDecimal[HasSign(ts) /\ ts[1] = "-", Unsigned(ts)]

(***************************************************************************)
(* int64(floatTs).  The conversion truncates toward zero.  When the value  *)
(* is a NaN, an infinity or outside int64, Go leaves the result to the     *)
(* implementation: amd64 yields the least int64 in every such case, arm64  *)
(* yields 0 for a NaN and the nearest end of int64 otherwise.  The build   *)
(* is fixed for a run and is part of the state.                            *)
(***************************************************************************)
VARIABLE goarch

GoArchs == {"amd64", "arm64"}

MinInt64 == Signed[TRUE, Two63]

MaxInt64 == Signed[FALSE, Sub[Two63, <<1>>]]

Int64(f) ==
    IF /\ f.kind = "num"
       /\ Cmp[f.whole, Two63] < 0 \/ (f.neg /\ f.whole = Two63)
    THEN Signed[f.neg, f.whole]
    ELSE CASE goarch = "amd64" -> MinInt64
           [] goarch = "arm64" ->
                IF f.kind = "nan" THEN SignedInt[0]
                ELSE IF f.neg THEN MinInt64 ELSE MaxInt64

(***************************************************************************)
(* time.Unix(sec, 0).Format("2006-01-02"): the calendar date of the        *)
(* instant in the host's zone, as the text "YYYY-MM-DD".  The date is      *)
(* worked out as the time package does: the seconds are counted from       *)
(* 1 January of the year -292277022399 in a uint64, which wraps for the    *)
(* instants before that year, then split into days, 400-year cycles,       *)
(* centuries, 4-year cycles and years.  A year is written with at least    *)
(* four digits and a minus sign when negative.                             *)
(***************************************************************************)
\* offset of the host's local zone from UTC, in seconds (TZ=UTC)
LocalOffsetSecs == 0

SecondsPerDay == 86400

DaysPer400Years == 146097

\* seconds from the start of the uint64 count to 1970-01-01T00:00:00Z
UnixToAbsolute ==
    <<9, 2, 2, 3, 3, 7, 2, 0, 2, 8, 7, 1, 5, 3, 2, 1, 6, 0, 0>>

\* the year the uint64 count starts in is -292277022399
AbsoluteZeroYear == Signed[TRUE, <<2, 9, 2, 2, 7, 7, 0, 2, 2, 3, 9, 9>>]

\* days before each month in a year that is not a leap year
DaysBefore == <<0, 31, 59, 90, 120, 151, 181, 212, 243, 273, 304, 334, 365>>

CharsOf(ds) == [i \in DOMAIN ds |-> DigitChars[ds[i] + 1]]

\* appendInt(b, x, width) for x >= 0 given as a magnitude
Padded[mag \in DigitSeqs, width \in Nat] ==
    CharsOf(Zeros(width - Len(mag)) \o mag)

\* the day left once the centuries before it that are complete (n100 of
\* them) are cut off; the last day of a 400-year cycle stays in century 3
CutCenturies[d \in Nat] ==
    [n100 |-> d \div 36524 - (d \div 36524) \div 4,
     d    |-> d - 36524 * (d \div 36524 - (d \div 36524) \div 4)]

CenturyCuts == [n100 : Nat, d : Nat]

Cut4Years[c \in CenturyCuts] ==
    [n100 |-> c.n100, n4 |-> c.d \div 1461, d |-> c.d % 1461]

YearCuts == [n100 : Nat, n4 : Nat, d : Nat]

\* the last day of a 4-year cycle stays in year 3
CutYears[c \in YearCuts] ==
    [y    |-> 100 * c.n100 + 4 * c.n4 + (c.d \div 365 - (c.d \div 365) \div 4),
     leap |-> /\ c.d \div 365 - (c.d \div 365) \div 4 = 3
              /\ c.n4 # 24 \/ c.n100 = 3,
     yday |-> c.d - 365 * (c.d \div 365 - (c.d \div 365) \div 4)]

\* month and day of the month of the day yday (from 0) of a year
MonthDay[leap \in BOOLEAN, yday \in Nat] ==
    IF leap /\ yday = 59 THEN [month |-> 2, day |-> 29]
    ELSE LET day   == IF leap /\ yday > 59 THEN yday - 1 ELSE yday
             month == CHOOSE m \in 1..12 :
                          DaysBefore[m] <= day /\ day < DaysBefore[m + 1]
         IN  [month |-> month, day |-> day - DaysBefore[month] + 1]

MonthDays == [month : Nat, day : Nat]

DateText[year \in SignedNums, md \in MonthDays] ==
    (IF year.neg THEN <<"-">> ELSE << >>) \o Padded[year.mag, 4]
        \o <<"-">> \o Padded[NatDigits[md.month], 2]
        \o <<"-">> \o Padded[NatDigits[md.day], 2]

\* the date of day d0 (from 0) of the 400-year cycle that starts with the
\* year cycleYear
YearDays == [y : Nat, leap : BOOLEAN, yday : Nat]

DateInCycle[cycleYear \in SignedNums, y \in YearDays] ==
    DateText[SignedAdd[cycleYear, SignedInt[y.y]], MonthDay[y.leap, y.yday]]

\* abs, the seconds of the uint64 count, to the date
AbsDate[abs \in DigitSeqs] ==
    DateInCycle[
        SignedAdd[Signed[FALSE,
                         MulAdd[DivMod[DivMod[abs, SecondsPerDay].q,
                                       DaysPer400Years].q, 400, 0]],
                  AbsoluteZeroYear],
        CutYears[Cut4Years[CutCenturies[
            DivMod[DivMod[abs, SecondsPerDay].q, DaysPer400Years].r]]]]

\* sec + unixToAbsolute as a uint64
Abs[local \in SignedNums] ==
    IF SignedAdd[local, Signed[FALSE, UnixToAbsolute]].neg
    THEN Sub[Two64, SignedAdd[local, Signed[FALSE, UnixToAbsolute]].mag]
    ELSE SignedAdd[local, Signed[FALSE, UnixToAbsolute]].mag

FormatDay(sec) == AbsDate[Abs[SignedAdd[sec, SignedInt[LocalOffsetSecs]]]]

\* the day string of a timestamp that parses
DayOf(ts) == FormatDay(Int64(ParseFloat(ts)))

(***************************************************************************)
(* The user directory (users.json) and loadUsers.  A raw user object has   *)
(* id, name, profile.display_name, is_restricted and deleted.  The table   *)
(* keeps ID, Profile, IsRestricted and Deleted; Name is not copied and so  *)
(* is the zero value "" (the empty sequence) in every entry.               *)
(***************************************************************************)
RawUser(id, name, displayName, restricted, deleted) ==
    [id |-> id, name |-> name, display_name |-> displayName,
     is_restricted |-> restricted, deleted |-> deleted]

UsersJSON ==
    << RawUser("U1", <<"a", "l">>, <<"A", "l">>, FALSE, FALSE),
       RawUser("U2", <<"b", "o">>, <<"B", ",", "o">>, TRUE, FALSE) >>

\* the map value before loadUsers has run, and users == nil in updateStats
NilUsers == [isNil |-> TRUE, m |-> EmptyMap]

RECURSIVE LoadUsersLoop(_, _)
LoadUsersLoop(userMap, raw) ==
    IF raw = << >> THEN userMap
    ELSE LET u == Head(raw)
         IN  LoadUsersLoop(
                 Put(userMap, u.id,
                     [ID |-> u.id, Name |-> << >>,
                      DisplayName |-> u.display_name,
                      IsRestricted |-> u.is_restricted,
                      Deleted |-> u.deleted]),
                 Tail(raw))

loadUsers(raw) == [isNil |-> FALSE, m |-> LoadUsersLoop(EmptyMap, raw)]

(***************************************************************************)
(* Messages.  Text, Reaction.Count are never read and are left out.        *)
(***************************************************************************)
Reaction(name, reactors) == [Name |-> name, Users |-> reactors]

Message(user, ts, reactions) ==
    [User |-> user, Timestamp |-> ts, GivenReactions |-> reactions]

\* the last second of 1970-01-01 (UTC) and a fraction
TsDay1Late == <<"8", "6", "3", "9", "9", ".", "9">>
\* less than 86400 as a decimal, 86400 as a float64: 1970-01-02
TsDay2Near == <<"8", "6", "3", "9", "9", ".", "9", "9", "9", "9", "9", "9",
                "9", "9", "9", "9", "9", "9", "9", "9", "9", "9", "9">>
\* ten seconds, written with an exponent
TsExp      == <<"1", "e", "1">>
\* parses, to a float64 that int64 has no value for
TsNaN      == <<"n", "a", "n">>
TsNegFrac  == <<"-", "0", ".", "5">>
TsBad      == <<"n", "o", "t", "-", "a", "-", "n", "u", "m", "b", "e", "r">>
TsEmpty    == << >>

\* "UX" is an identifier that users.json does not hold
MsgSamples ==
    { Message("U1", TsDay1Late, <<Reaction("thumbsup", <<"U2">>)>>),
      Message("U2", TsDay2Near, <<Reaction("tada", <<"U1", "UX">>),
                                  Reaction("eyes", <<"U1">>)>>),
      Message("UX", TsExp, <<Reaction("thumbsup", <<"U1">>)>>),
      Message("U2", TsNaN, << >>),
      Message("U1", TsBad, << >>),
      Message("U2", TsEmpty, <<Reaction("thumbsup", <<"U1">>)>>),
      Message("U1", TsNegFrac, <<Reaction("thumbsup", <<"U1">>)>>) }

RECURSIVE SeqsUpTo(_, _)
SeqsUpTo(S, n) ==
    IF n = 0 THEN {<< >>}
    ELSE LET shorter == SeqsUpTo(S, n - 1)
         IN  shorter \cup {Append(s, x) : s \in shorter, x \in S}

(***************************************************************************)
(* Stats and the loop body of updateStats.                                 *)
(***************************************************************************)
RECURSIVE ReplaceAll(_, _, _)
ReplaceAll(s, old, new) ==
    IF s = << >> THEN << >>
    ELSE <<IF Head(s) = old THEN new ELSE Head(s)>>
             \o ReplaceAll(Tail(s), old, new)

NewStats(u) ==
    [UserID |-> u.ID, Name |-> u.Name,
     DisplayName |-> ReplaceAll(u.DisplayName, ",", " "),
     Posts |-> 0,
     GivenReactions |-> 0, GivenReactionUser |-> {},
     ReceivedReactions |-> 0, ReceivedReactionUsers |-> {},
     IsRestricted |-> u.IsRestricted, Deleted |-> u.Deleted]

\* a plausible slip: the record is built anew on every reference
GetOrCreate_Fresh(sbu, id, um) ==
    IF id \in DOMAIN um.m
    THEN [ok |-> TRUE, m |-> Put(sbu, id, NewStats(um.m[id]))]
    ELSE [ok |-> (id \in DOMAIN sbu), m |-> sbu]

\* stats, ok := statsByUser[id]; if !ok { u := users[id]; if u == nil
\* { continue }; stats = &Stats{...}; statsByUser[id] = stats }
GetOrCreate(sbu, id, um) ==
    IF id \in DOMAIN sbu THEN [ok |-> TRUE, m |-> sbu]
    ELSE IF id \in DOMAIN um.m
         THEN [ok |-> TRUE, m |-> Put(sbu, id, NewStats(um.m[id]))]
         ELSE [ok |-> FALSE, m |-> sbu]

CountReaction(sbu, author, reactingUser) ==
    LET s1 == [sbu EXCEPT
                   ![reactingUser].ReceivedReactions = @ + 1,
                   ![reactingUser].ReceivedReactionUsers = @ \cup {author}]
    IN  [s1 EXCEPT ![author].GivenReactions = @ + 1,
                   ![author].GivenReactionUser = @ \cup {reactingUser}]

\* a plausible slip: the author's side is counted before the reactor is
\* looked up
FoldReactor_AuthorFirst(sbu, author, reactingUser, um) ==
    LET g == GetOrCreate(sbu, reactingUser, um)
    IN  IF g.ok THEN CountReaction(g.m, author, reactingUser)
        ELSE [sbu EXCEPT
                  ![author].GivenReactions = @ + 1,
                  ![author].GivenReactionUser = @ \cup {reactingUser}]

\* the body of  for _, reactingUser := range reaction.Users
FoldReactor(sbu, author, reactingUser, um) ==
    LET g == GetOrCreate(sbu, reactingUser, um)
    IN  IF g.ok THEN CountReaction(g.m, author, reactingUser) ELSE sbu

\* every reactor of the message, in the order the two nested loops visit
RECURSIVE ReactingUsers(_)
ReactingUsers(reactions) ==
    IF reactions = << >> THEN << >>
    ELSE Head(reactions).Users \o ReactingUsers(Tail(reactions))

RECURSIVE FoldReactors(_, _, _, _)
FoldReactors(sbu, author, reactors, um) ==
    IF reactors = << >> THEN sbu
    ELSE FoldReactors(FoldReactor(sbu, author, Head(reactors), um),
                      author, Tail(reactors), um)

(***************************************************************************)
(* One iteration of  for _, message := range messages  on the table.       *)
(* outcome:  "skip"    users == nil, or the timestamp is empty (continue)  *)
(*           "abort"   the timestamp does not parse (print, return)        *)
(*           "unknown" the author has no record and is in no directory     *)
(*                     (continue; the day's map has been created)          *)
(*           "folded"  the post and its reactions were counted             *)
(***************************************************************************)
DayBucket(tbl, ch, day) ==
    IF day \in DOMAIN tbl[ch] THEN tbl[ch][day] ELSE EmptyMap

SetBucket(tbl, ch, day, sbu) == [tbl EXCEPT ![ch] = Put(@, day, sbu)]

\* a plausible slip: an unknown author's reactions are still counted for
\* the reacting users
FoldMessage_ReactUnknown(tbl, ch, msg, um) ==
    IF um.isNil \/ Len(msg.Timestamp) = 0
    THEN [table |-> tbl, outcome |-> "skip"]
    ELSE Bind(ParseFloat(msg.Timestamp), LAMBDA p :
         IF p.err THEN [table |-> tbl, outcome |-> "abort"]
         ELSE Bind(FormatDay(Int64(p)), LAMBDA formattedTime :
                  LET sbu0   == DayBucket(tbl, ch, formattedTime)
                      g      == GetOrCreate(sbu0, msg.User, um)
                      posted == [g.m EXCEPT ![msg.User].Posts = @ + 1]
                      ghost  == Put(sbu0, msg.User,
                                    NewStats([ID |-> msg.User, Name |-> << >>,
                                              DisplayName |-> << >>,
                                              IsRestricted |-> FALSE,
                                              Deleted |-> FALSE]))
                      others == FoldReactors(ghost, msg.User,
                                    ReactingUsers(msg.GivenReactions), um)
                  IN  IF ~g.ok
                      THEN [table |-> SetBucket(tbl, ch, formattedTime,
                                        [k \in DOMAIN others \ {msg.User}
                                             |-> others[k]]),
                            outcome |-> "unknown"]
                      ELSE [table |-> SetBucket(tbl, ch, formattedTime,
                                        FoldReactors(posted, msg.User,
                                            ReactingUsers(msg.GivenReactions),
                                            um)),
                            outcome |-> "folded"]))

FoldMessage(tbl, ch, msg, um) ==
    IF um.isNil \/ Len(msg.Timestamp) = 0
    THEN [table |-> tbl, outcome |-> "skip"]
    ELSE Bind(ParseFloat(msg.Timestamp), LAMBDA p :
         IF p.err THEN [table |-> tbl, outcome |-> "abort"]
         ELSE Bind(FormatDay(Int64(p)), LAMBDA formattedTime :
                  LET sbu0   == DayBucket(tbl, ch, formattedTime)
                      g      == GetOrCreate(sbu0, msg.User, um)
                      posted == [g.m EXCEPT ![msg.User].Posts = @ + 1]
                  IN  IF ~g.ok
                      THEN [table |-> SetBucket(tbl, ch, formattedTime, sbu0),
                            outcome |-> "unknown"]
                      ELSE [table |-> SetBucket(tbl, ch, formattedTime,
                                        FoldReactors(posted, msg.User,
                                            ReactingUsers(msg.GivenReactions),
                                            um)),
                            outcome |-> "folded"]))

(***************************************************************************)
(* updateStats as a whole: the channel's map is created on entry, the      *)
(* messages are folded in order, an unparseable timestamp ends the call.   *)
(***************************************************************************)
EnsureChannel(tbl, ch) == IF ch \in DOMAIN tbl THEN tbl ELSE Put(tbl, ch, EmptyMap)

RECURSIVE UpdateLoop(_, _, _, _)
UpdateLoop(tbl, ch, msgs, um) ==
    IF msgs = << >> THEN [table |-> tbl, tsError |-> FALSE]
    ELSE Bind(FoldMessage(tbl, ch, Head(msgs), um), LAMBDA r :
             IF r.outcome = "abort" THEN [table |-> r.table, tsError |-> TRUE]
             ELSE UpdateLoop(r.table, ch, Tail(msgs), um))

updateStats(tbl, ch, msgs, um) == UpdateLoop(EnsureChannel(tbl, ch), ch, msgs, um)

(***************************************************************************)
(* The export directory.  A path is a sequence of names; a name is a stem  *)
(* and an extension (written without its dot, "" for none).  Tree lists    *)
(* what filepath.Walk visits, the root first and then in lexical order,    *)
(* each entry by its path relative to the root.                            *)
(***************************************************************************)
Name(stem, ext) == [stem |-> stem, ext |-> ext]

Entry(rel, isDir) == [rel |-> rel, isDir |-> isDir]

Tree ==
    << Entry(<< >>, TRUE),
       Entry(<<Name("channels", "json")>>, FALSE),
       Entry(<<Name("export", "")>>, TRUE),
       Entry(<<Name("export", ""), Name("log", "json")>>, FALSE),
       Entry(<<Name("general", "")>>, TRUE),
       Entry(<<Name("general", ""), Name("day1", "json")>>, FALSE),
       Entry(<<Name("general", ""), Name("notes", "txt")>>, FALSE),
       Entry(<<Name("random", "")>>, TRUE),
       Entry(<<Name("random", ""), Name("archive", "")>>, TRUE),
       Entry(<<Name("random", ""), Name("archive", ""), Name("old", "json")>>,
             FALSE),
       Entry(<<Name("users", "json")>>, FALSE) >>

\* os.Args[1] of a run with one argument
BasePaths == { <<Name("export", "")>>, <<Name("general", "")>> }

PathOf(bp, e) == bp \o e.rel

\* filepath.Dir, filepath.Base, filepath.Ext on a path of names
Dir(path) == SubSeq(path, 1, Len(path) - 1)

Base(path) == path[Len(path)]

Ext(path) == path[Len(path)].ext

\* "./" + basePath with every "." and "/" removed + ".csv": the stems and
\* extensions of the path's names run together
RECURSIVE StripDotsAndSlashes(_)
StripDotsAndSlashes(path) ==
    IF path = << >> THEN << >>
    ELSE <<Head(path).stem, Head(path).ext>> \o StripDotsAndSlashes(Tail(path))

OutputName(bp) == [dir |-> ".", pieces |-> StripDotsAndSlashes(bp), ext |-> "csv"]

(***************************************************************************)
(* exportCSV: the header, and one row per Stats record.                    *)
(***************************************************************************)
Header ==
    << "display_name", "name", "is_restricted", "deleted", "day", "posts",
       "received_reations", "received_reaction_users", "given_reactions",
       "given_reation_users", "channel_name" >>

\* strconv.Itoa
RECURSIVE ItoaDigits(_)
ItoaDigits(n) ==
    IF n < 10 THEN <<DigitChars[n + 1]>>
    ELSE ItoaDigits(n \div 10) \o <<DigitChars[(n % 10) + 1]>>

Itoa(n) == IF n < 0 THEN <<"-">> \o ItoaDigits(0 - n) ELSE ItoaDigits(n)

\* strconv.FormatBool
FormatBool(b) == IF b THEN "true" ELSE "false"

\* the (channel, day, user) triples that hold a Stats record
Keys(tbl) ==
    { k \in UNION { UNION { { [ch |-> c, day |-> d, user |-> u] :
                                  u \in DOMAIN tbl[c][d] } :
                            d \in DOMAIN tbl[c] } :
                    c \in DOMAIN tbl } : TRUE }

StatsAt(tbl, k) == tbl[k.ch][k.day][k.user]

Row(channel, day, s) ==
    << s.DisplayName, s.Name, FormatBool(s.IsRestricted), FormatBool(s.Deleted),
       day, Itoa(s.Posts),
       Itoa(s.GivenReactions), Itoa(Cardinality(s.GivenReactionUser)),
       Itoa(s.ReceivedReactions), Itoa(Cardinality(s.ReceivedReactionUsers)),
       channel >>

\* the rows of the records ks, as a bag: map iteration order is not fixed
RowsOf(tbl, ks) ==
    LET rows == { Row(k.ch, k.day, StatsAt(tbl, k)) : k \in ks }
    IN  [r \in rows |->
            Cardinality({k \in ks : Row(k.ch, k.day, StatsAt(tbl, k)) = r})]

NoFile ==
    [exists |-> FALSE, name |-> [dir |-> "", pieces |-> << >>, ext |-> ""],
     header |-> << >>, rows |-> EmptyBag]

(***************************************************************************)
(* State of one run of main.                                               *)
(***************************************************************************)
VARIABLES
    args,            \* len(os.Args)
    basePath,        \* os.Args[1]
    pc,              \* where main is
    users,           \* the lookup table loadUsers returned
    statsByChannel,  \* the aggregation table
    walkIdx,         \* the entry of Tree that filepath.Walk visits next
    channelName,     \* updateStats: its channelName argument
    messages,        \* updateStats: the messages its loop has yet to visit
    message,         \* updateStats: the message of the last iteration
    outcome,         \* updateStats: how the last iteration ended
                     \* (both locals are gone once the call has returned)
    stdout,          \* the lines printed so far
    csv,             \* the output file
    exportErr,       \* what exportCSV returned: "nil" or "create"
    parsed,          \* history: entries handed to readMessagesFromJSONFile
    handedPosts,     \* history: per author, the messages handed to
                     \* updateStats whose timestamp is non-empty and parses
    permPhase, permUsers, permChannel, permStart, permMsgs, permOrder,
    permOut1, permOut2    \* SpecPerm only

\* goarch, the build, is declared with int64(floatTs) above

mainVars ==
    <<args, basePath, pc, users, statsByChannel, walkIdx, channelName,
      messages, message, outcome, stdout, csv, exportErr, parsed, handedPosts>>

permVars ==
    <<permPhase, permUsers, permChannel, permStart, permMsgs, permOrder,
      permOut1, permOut2>>

vars == <<mainVars, permVars, goarch>>

NoMessage == Message("", << >>, << >>)

MsgNoPath     == "Error: No directory path specified."
\* the line goes on to state the correct usage
MsgTooMany    == "Error: Too many arguments."
MsgLoadUsers  == "Error loading users:"
MsgParseTs    == "Error parsing timestamp:"
MsgProcessing == "Error processing files:"
MsgCreated    == "file created successfully."

Printed(line) == \E i \in DOMAIN stdout : stdout[i] = line

PermIdle ==
    /\ permPhase = "off"
    /\ permUsers = NilUsers
    /\ permChannel = Name("", "")
    /\ permStart = EmptyMap
    /\ permMsgs = << >>
    /\ permOrder = << >>
    /\ permOut1 = EmptyMap
    /\ permOut2 = EmptyMap

Init ==
    /\ args \in 1..3
    /\ basePath \in BasePaths
    /\ pc = "main"
    /\ users = NilUsers
    /\ statsByChannel = EmptyMap
    /\ walkIdx = 1
    /\ channelName = Name("", "")
    /\ messages = << >>
    /\ message = NoMessage
    /\ outcome = "none"
    /\ stdout = << >>
    /\ csv = NoFile
    /\ exportErr = "unset"
    /\ parsed = {}
    /\ handedPosts = [u \in {} |-> 0]
    /\ goarch \in GoArchs
    /\ PermIdle

\* main, lines 58-64
MainNoArgs ==
    /\ pc = "main" /\ args = 1
    /\ stdout' = Append(stdout, MsgNoPath)
    /\ pc' = "exit"
    /\ UNCHANGED <<args, basePath, users, statsByChannel, walkIdx, channelName,
                   messages, message, outcome, csv, exportErr, parsed,
                   handedPosts, permVars, goarch>>

MainTooManyArgs ==
    /\ pc = "main" /\ args > 2
    /\ stdout' = Append(stdout, MsgTooMany)
    /\ pc' = "exit"
    /\ UNCHANGED <<args, basePath, users, statsByChannel, walkIdx, channelName,
                   messages, message, outcome, csv, exportErr, parsed,
                   handedPosts, permVars, goarch>>

\* main, lines 66-74, users.json read and decoded
MainLoadUsers ==
    /\ pc = "main" /\ args = 2
    /\ users' = loadUsers(UsersJSON)
    /\ pc' = "walk"
    /\ UNCHANGED <<args, basePath, statsByChannel, walkIdx, channelName,
                   messages, message, outcome, stdout, csv, exportErr, parsed,
                   handedPosts, permVars, goarch>>

\* main, lines 70-74, users.json missing, unreadable or malformed
MainLoadUsersFails ==
    /\ pc = "main" /\ args = 2
    /\ stdout' = Append(stdout, MsgLoadUsers)
    /\ pc' = "exit"
    /\ UNCHANGED <<args, basePath, users, statsByChannel, walkIdx, channelName,
                   messages, message, outcome, csv, exportErr, parsed,
                   handedPosts, permVars, goarch>>

(***************************************************************************)
(* The function handed to filepath.Walk, lines 76-98, one call per entry.  *)
(***************************************************************************)
\* !info.IsDir() && filepath.Ext(path) == ".json"
IsJSONFile(e) == ~e.isDir /\ Ext(PathOf(basePath, e)) = "json"

\* filepath.Base(dir) == filepath.Base(basePath), dir the file's directory
InRootNamedDir(bp, e) == Base(Dir(PathOf(bp, e))) = Base(bp)

\* messages of one file whose timestamp is non-empty and parses, by author
CountValid(msgs, u) ==
    Cardinality({ i \in DOMAIN msgs :
                    /\ msgs[i].User = u
                    /\ Len(msgs[i].Timestamp) > 0
                    /\ ~ParseFloat(msgs[i].Timestamp).err })

AddHanded(h, msgs) ==
    [u \in (DOMAIN h) \cup {msgs[i].User : i \in DOMAIN msgs} |->
        (IF u \in DOMAIN h THEN h[u] ELSE 0) + CountValid(msgs, u)]

Visiting == pc = "walk" /\ walkIdx <= Len(Tree)

\* if err != nil { return err }: Walk could not stat or list the entry
WalkError ==
    /\ Visiting
    /\ stdout' = Append(stdout, MsgProcessing)
    /\ pc' = "exit"
    /\ UNCHANGED <<args, basePath, users, statsByChannel, walkIdx, channelName,
                   messages, message, outcome, csv, exportErr, parsed,
                   handedPosts, permVars, goarch>>

\* a directory, or a file whose extension is not .json
WalkOther ==
    /\ Visiting
    /\ ~IsJSONFile(Tree[walkIdx])
    /\ walkIdx' = walkIdx + 1
    /\ UNCHANGED <<args, basePath, pc, users, statsByChannel, channelName,
                   messages, message, outcome, stdout, csv, exportErr, parsed,
                   handedPosts, permVars, goarch>>

\* lines 82-87: the file's directory is named as the root is
WalkSkip ==
    /\ Visiting
    /\ IsJSONFile(Tree[walkIdx])
    /\ InRootNamedDir(basePath, Tree[walkIdx])
    /\ walkIdx' = walkIdx + 1
    /\ UNCHANGED <<args, basePath, pc, users, statsByChannel, channelName,
                   messages, message, outcome, stdout, csv, exportErr, parsed,
                   handedPosts, permVars, goarch>>

\* lines 89-92: the file cannot be read or is no JSON array of messages
WalkReadFails ==
    /\ Visiting
    /\ IsJSONFile(Tree[walkIdx])
    /\ ~InRootNamedDir(basePath, Tree[walkIdx])
    /\ parsed' = parsed \cup {walkIdx}
    /\ stdout' = Append(stdout, MsgProcessing)
    /\ pc' = "exit"
    /\ UNCHANGED <<args, basePath, users, statsByChannel, walkIdx, channelName,
                   messages, message, outcome, csv, exportErr, handedPosts,
                   permVars, goarch>>

\* lines 89-94 and 152-156: the file decodes to msgs; updateStats is entered
WalkUpdateStats ==
    /\ Visiting
    /\ IsJSONFile(Tree[walkIdx])
    /\ ~InRootNamedDir(basePath, Tree[walkIdx])
    /\ \E msgs \in SeqsUpTo(MsgSamples, MaxMsgs) :
          /\ messages' = msgs
          /\ handedPosts' = AddHanded(handedPosts, msgs)
    /\ parsed' = parsed \cup {walkIdx}
    /\ channelName' = Base(Dir(PathOf(basePath, Tree[walkIdx])))
    /\ statsByChannel' = EnsureChannel(statsByChannel, channelName')
    /\ message' = NoMessage
    /\ outcome' = "none"
    /\ pc' = "updateStats"
    /\ UNCHANGED <<args, basePath, users, walkIdx, stdout, csv, exportErr,
                   permVars, goarch>>

\* lines 158-229: one iteration of the loop over messages; on a timestamp
\* that does not parse the call returns and so does the walk function
UpdateStep ==
    /\ pc = "updateStats"
    /\ messages # << >>
    /\ \E r \in {FoldMessage(statsByChannel, channelName, Head(messages), users)} :
           /\ statsByChannel' = r.table
           /\ IF r.outcome = "abort"
              THEN /\ stdout' = Append(stdout, MsgParseTs)
                   /\ messages' = << >>
                   /\ message' = NoMessage
                   /\ outcome' = "none"
                   /\ pc' = "walk"
                   /\ walkIdx' = walkIdx + 1
              ELSE /\ messages' = Tail(messages)
                   /\ message' = Head(messages)
                   /\ outcome' = r.outcome
                   /\ UNCHANGED <<stdout, pc, walkIdx>>
    /\ UNCHANGED <<args, basePath, users, channelName, csv, exportErr, parsed,
                   handedPosts, permVars, goarch>>

\* line 230 and line 97: the loop is over, the walk function returns nil
UpdateReturn ==
    /\ pc = "updateStats"
    /\ messages = << >>
    /\ message' = NoMessage
    /\ outcome' = "none"
    /\ pc' = "walk"
    /\ walkIdx' = walkIdx + 1
    /\ UNCHANGED <<args, basePath, users, statsByChannel, channelName, messages,
                   stdout, csv, exportErr, parsed, handedPosts, permVars,
                   goarch>>

\* lines 100-105: Walk returned nil
WalkDone ==
    /\ pc = "walk"
    /\ walkIdx > Len(Tree)
    /\ pc' = "export"
    /\ UNCHANGED <<args, basePath, users, statsByChannel, walkIdx, channelName,
                   messages, message, outcome, stdout, csv, exportErr, parsed,
                   handedPosts, permVars, goarch>>

(***************************************************************************)
(* main, lines 105-107: exportCSV(outputName, statsByChannel), whose       *)
(* result is dropped, and the line printed after it.                       *)
(***************************************************************************)
Exported(err, file) ==
    /\ pc = "export"
    /\ exportErr' = err
    /\ csv' = file
    /\ stdout' = Append(stdout, MsgCreated)
    /\ pc' = "exit"
    /\ UNCHANGED <<args, basePath, users, statsByChannel, walkIdx, channelName,
                   messages, message, outcome, parsed, handedPosts, permVars,
                   goarch>>

FileWith(hdr, rows) ==
    [exists |-> TRUE, name |-> OutputName(basePath), header |-> hdr,
     rows |-> rows]

\* the table's rows, all of them
AllRows == RowsOf(statsByChannel, Keys(statsByChannel))

\* lines 234-237: os.Create fails, exportCSV returns the error
ExportCreateFails == Exported("create", csv)

\* lines 238-287 with every write to the file succeeding.  writer.Write
\* only fills the writer's buffer, which holds 4096 bytes and is written
\* out when it is full; the header and the rows of the tables of this
\* model stay below that, so no Write call returns an error here and
\* everything reaches the file in the deferred writer.Flush().
ExportOk == Exported("nil", FileWith(Header, AllRows))

\* lines 238-287 with the deferred writer.Flush() (242) or file.Close()
\* (238) failing: both run after "return nil" and their errors are
\* dropped.  The file is left without a whole header, or with the header
\* and the rows of some of the records (a line cut short is not counted).
ExportFlushFails ==
    \/ Exported("nil", FileWith(<< >>, EmptyBag))
    \/ \E written \in SUBSET Keys(statsByChannel) :
          /\ written # Keys(statsByChannel)
          /\ Exported("nil", FileWith(Header, RowsOf(statsByChannel, written)))

Next ==
    \/ MainNoArgs
    \/ MainTooManyArgs
    \/ MainLoadUsers
    \/ MainLoadUsersFails
    \/ WalkError
    \/ WalkOther
    \/ WalkSkip
    \/ WalkReadFails
    \/ WalkUpdateStats
    \/ UpdateStep
    \/ UpdateReturn
    \/ WalkDone
    \/ ExportCreateFails
    \/ ExportOk
    \/ ExportFlushFails

Spec == Init /\ [][Next]_vars

(***************************************************************************)
(* SpecPerm: updateStats as a function.  A starting table is built by one  *)
(* call on the empty table; then the same list of messages is folded into  *)
(* it in the order given and in a permuted order.                          *)
(***************************************************************************)
PermChannels == { Name("general", ""), Name("random", "") }

\* the bijections of 1..n onto itself, as sequences
Orders(n) == { o \in [1..n -> 1..n] : \A i, j \in 1..n : o[i] = o[j] => i = j }

Reorder(msgs, o) == [i \in DOMAIN msgs |-> msgs[o[i]]]

MainIdle ==
    /\ args = 2
    /\ basePath = <<Name("export", "")>>
    /\ pc = "exit"
    /\ users = NilUsers
    /\ statsByChannel = EmptyMap
    /\ walkIdx = 1
    /\ channelName = Name("", "")
    /\ messages = << >>
    /\ message = NoMessage
    /\ outcome = "none"
    /\ stdout = << >>
    /\ csv = NoFile
    /\ exportErr = "unset"
    /\ parsed = {}
    /\ handedPosts = [u \in {} |-> 0]

PermInit ==
    /\ MainIdle
    /\ goarch \in GoArchs
    /\ permPhase = "start"
    /\ permUsers \in {NilUsers, loadUsers(UsersJSON)}
    /\ permChannel = Name("", "")
    /\ permStart = EmptyMap
    /\ permMsgs = << >>
    /\ permOrder = << >>
    /\ permOut1 = EmptyMap
    /\ permOut2 = EmptyMap

PermSeed ==
    /\ permPhase = "start"
    /\ \E ch \in PermChannels, seed \in SeqsUpTo(MsgSamples, MaxSeedLen) :
          permStart' = updateStats(EmptyMap, ch, seed, permUsers).table
    /\ permPhase' = "seeded"
    /\ UNCHANGED <<mainVars, permUsers, permChannel, permMsgs, permOrder,
                   permOut1, permOut2, goarch>>

PermApply ==
    /\ permPhase = "seeded"
    /\ \E ch \in PermChannels, msgs \in SeqsUpTo(MsgSamples, MaxPermLen) :
          \E o \in Orders(Len(msgs)) :
              /\ permChannel' = ch
              /\ permMsgs' = msgs
              /\ permOrder' = o
              /\ permOut1' = updateStats(permStart, ch, msgs, permUsers).table
              /\ permOut2' = updateStats(permStart, ch, Reorder(msgs, o),
                                         permUsers).table
    /\ permPhase' = "done"
    /\ UNCHANGED <<mainVars, permUsers, permStart, goarch>>

PermNext == PermSeed \/ PermApply

SpecPerm == PermInit /\ [][PermNext]_vars

(***************************************************************************)
(* Properties.                                                             *)
(***************************************************************************)
Known(id) == id \in DOMAIN users.m

Occurrences(seq, x) == Cardinality({i \in DOMAIN seq : seq[i] = x})

\* the message the next loop iteration folds, its reactors and its bucket
Folding == pc = "updateStats" /\ messages # << >>

Current == Head(messages)

CurrentReactors == ReactingUsers(Current.GivenReactions)

CurrentDay == DayOf(Current.Timestamp)

GivenOf(sbu, id) == IF id \in DOMAIN sbu THEN sbu[id].GivenReactions ELSE 0

ReceivedOf(sbu, id) == IF id \in DOMAIN sbu THEN sbu[id].ReceivedReactions ELSE 0

SumPosts(tbl, id) ==
    LET ks == {k \in Keys(tbl) : k.user = id}
    IN  SetSum(ks, [k \in ks |-> StatsAt(tbl, k).Posts])

WalkFinished == pc = "export" \/ exportErr # "unset"

\* C1: once a non-empty timestamp has failed to parse and the error has
\* been printed, no message is folded any more, the Exporter is never
\* invoked and no CSV file exists.
C1_BadTimestampHaltsRun ==
    Printed(MsgParseTs) =>
        /\ ~(pc = "updateStats" /\ message # NoMessage)
        /\ pc # "export"
        /\ exportErr = "unset"
        /\ ~csv.exists
        /\ ~Printed(MsgCreated)

\* C2: when the Walker has processed every file, each directory user's post
\* counts summed over all buckets equal the number of messages handed to
\* the aggregator with that author and a non-empty, parseable timestamp.
C2_CountingInvariant ==
    WalkFinished =>
        \A id \in DOMAIN users.m :
            SumPosts(statsByChannel, id) =
                (IF id \in DOMAIN handedPosts THEN handedPosts[id] ELSE 0)

\* C3: folding a message of a known author with a valid timestamp raises,
\* in the message's bucket, each known reactor's GivenReactions by the
\* number of times it is listed, and the author's ReceivedReactions by the
\* number of listed known reactors.
C3_ReactorGivesAuthorReceives ==
    [][ (Folding /\ outcome' = "folded") =>
          LET before == DayBucket(statsByChannel, channelName, CurrentDay)
              after  == DayBucket(statsByChannel', channelName, CurrentDay)
              known  == {i \in DOMAIN CurrentReactors : Known(CurrentReactors[i])}
          IN  /\ \A i \in known :
                    GivenOf(after, CurrentReactors[i])
                        - GivenOf(before, CurrentReactors[i])
                    = Occurrences(CurrentReactors, CurrentReactors[i])
              /\ ReceivedOf(after, Current.User) - ReceivedOf(before, Current.User)
                    = Cardinality(known) ]_vars

\* the Exporter has run and the output file is missing or incomplete
ExportFailed ==
    /\ exportErr # "unset"
    /\ csv # FileWith(Header, AllRows)

\* C4: when the Exporter has failed (the file was not created, or the
\* header or a row did not reach it), an error has been printed and the
\* line saying the file was created has not.
C4_ExportFailureReported ==
    ExportFailed =>
        /\ ~Printed(MsgCreated)
        /\ Printed(MsgProcessing)

\* C5: folding a message whose author is not in the user lookup table
\* creates no Stats record, changes no Stats record, and so changes no row
\* the Exporter would write.
C5_UnknownAuthorNoEffect ==
    [][ (Folding /\ ~Known(Current.User)) =>
          /\ Keys(statsByChannel') = Keys(statsByChannel)
          /\ \A k \in Keys(statsByChannel) :
                StatsAt(statsByChannel', k) = StatsAt(statsByChannel, k)
          /\ RowsOf(statsByChannel', Keys(statsByChannel'))
                = RowsOf(statsByChannel, Keys(statsByChannel)) ]_vars

\* C5 witness: a message of an unknown author, with a valid timestamp and a
\* known reactor, has just been folded into a bucket that holds records.
C5_Witness ==
    /\ pc = "updateStats"
    /\ outcome = "unknown"
    /\ ~Known(message.User)
    /\ \E i \in DOMAIN ReactingUsers(message.GivenReactions) :
          Known(ReactingUsers(message.GivenReactions)[i])
    /\ DayBucket(statsByChannel, channelName,
                 DayOf(message.Timestamp)) # EmptyMap

Grew(old, new) ==
    /\ new.UserID = old.UserID
    /\ new.Posts >= old.Posts
    /\ new.GivenReactions >= old.GivenReactions
    /\ new.ReceivedReactions >= old.ReceivedReactions
    /\ old.GivenReactionUser \subseteq new.GivenReactionUser
    /\ old.ReceivedReactionUsers \subseteq new.ReceivedReactionUsers

\* C6: every step keeps each Stats record under its (channel, day, user)
\* triple with counts and sets equal or larger, and a record appears only
\* in the bucket of the message being folded, for its author or a reactor.
C6_RecordsOnlyGrow ==
    [][ /\ \A k \in Keys(statsByChannel) :
              /\ k \in Keys(statsByChannel')
              /\ StatsAt(statsByChannel', k).UserID = k.user
              /\ Grew(StatsAt(statsByChannel, k), StatsAt(statsByChannel', k))
        /\ \A k \in Keys(statsByChannel') \ Keys(statsByChannel) :
              /\ Folding
              /\ k.ch = channelName
              /\ k.day = CurrentDay
              /\ \/ k.user = Current.User
                 \/ \E i \in DOMAIN CurrentReactors : CurrentReactors[i] = k.user
              /\ StatsAt(statsByChannel', k).UserID = k.user ]_vars

\* C6 witness: a message has just been folded into a bucket in which its
\* author already had posts, and some record created for a reactor has
\* been counted into more than once.
C6_Witness ==
    /\ outcome = "folded"
    /\ \E k \in Keys(statsByChannel) :
          /\ k.user = message.User
          /\ k.ch = channelName
          /\ StatsAt(statsByChannel, k).Posts >= 2
    /\ \E k \in Keys(statsByChannel) :
          /\ StatsAt(statsByChannel, k).Posts = 0
          /\ StatsAt(statsByChannel, k).ReceivedReactions >= 2

\* C7: a regular .json file the Walker has visited was handed to the Parser
\* exactly if it does not sit directly under the root, and then its
\* directory's name is the channel name.
C7_ParsedIffBelowSubdirectory ==
    /\ \A i \in DOMAIN Tree :
          (IsJSONFile(Tree[i]) /\ (i < walkIdx \/ (pc = "updateStats" /\ i = walkIdx)))
              => (i \in parsed <=> Len(Tree[i].rel) > 1)
    /\ \A i \in parsed : IsJSONFile(Tree[i]) /\ Len(Tree[i].rel) > 1
    /\ (pc = "updateStats" =>
          channelName = Tree[walkIdx].rel[Len(Tree[walkIdx].rel) - 1])

\* C8: folding a list of messages and folding any permutation of it give
\* the same table (same buckets, same counts and sets), whatever the
\* timestamps.
C8_AnyOrderSameTable == permPhase = "done" => permOut1 = permOut2

Buckets(tbl) ==
    UNION { { [ch |-> c, day |-> d] : d \in DOMAIN tbl[c] } : c \in DOMAIN tbl }

\* C9: in every bucket the given-reaction counts and the received-reaction
\* counts have the same sum, and X is in Y's given-to set exactly when Y is
\* in X's received-from set.
C9_ReactionConservation ==
    \A b \in Buckets(statsByChannel) :
        LET sbu == statsByChannel[b.ch][b.day]
            ids == DOMAIN sbu
        IN  /\ SetSum(ids, [x \in ids |-> sbu[x].GivenReactions])
                 = SetSum(ids, [x \in ids |-> sbu[x].ReceivedReactions])
            /\ \A y \in ids :
                  /\ sbu[y].GivenReactionUser \subseteq ids
                  /\ sbu[y].ReceivedReactionUsers \subseteq ids
            /\ \A x, y \in ids :
                  x \in sbu[y].GivenReactionUser
                      <=> y \in sbu[x].ReceivedReactionUsers

\* C9 witness: a bucket in which a known user reacted to another user's
\* message that also lists a reactor outside the directory.
C9_Witness ==
    /\ outcome = "folded"
    /\ \E i \in DOMAIN ReactingUsers(message.GivenReactions) :
          ~Known(ReactingUsers(message.GivenReactions)[i])
    /\ \E b \in Buckets(statsByChannel) :
          \E x, y \in DOMAIN statsByChannel[b.ch][b.day] :
              /\ x # y
              /\ y = message.User
              /\ x \in statsByChannel[b.ch][b.day][y].GivenReactionUser
              /\ statsByChannel[b.ch][b.day][y].GivenReactions >= 2

\* the value a header column names, for the record s of (channel, day)
ValueNamed(column, channel, day, s) ==
    CASE column = "display_name" -> s.DisplayName
      [] column = "name" -> s.Name
      [] column = "is_restricted" -> FormatBool(s.IsRestricted)
      [] column = "deleted" -> FormatBool(s.Deleted)
      [] column = "day" -> day
      [] column = "posts" -> Itoa(s.Posts)
      [] column = "received_reations" -> Itoa(s.ReceivedReactions)
      [] column = "received_reaction_users" ->
             Itoa(Cardinality(s.ReceivedReactionUsers))
      [] column = "given_reactions" -> Itoa(s.GivenReactions)
      [] column = "given_reation_users" -> Itoa(Cardinality(s.GivenReactionUser))
      [] column = "channel_name" -> channel

\* C10: every data row of the output file holds, under each header column,
\* the value of some one Stats record that the column names.
C10_ValuesUnderTheirHeaders ==
    \A row \in BagToSet(csv.rows) :
        \E k \in Keys(statsByChannel) :
            \A i \in DOMAIN Header :
                row[i] = ValueNamed(Header[i], k.ch, k.day,
                                    StatsAt(statsByChannel, k))

=============================================================================
